---- MODULE Spec2Model ----
(***************************************************************************)
(* Progress state machine and exam lifecycle of the vocabulary trainer:    *)
(* ProgressService / StudyService.submit_study (status transitions of a    *)
(* learning item) and ExamService (generation task, mark-as-grading,       *)
(* submission task).                                                       *)
(*                                                                         *)
(* Three specifications:                                                   *)
(*   ProgressSpec - the pure transition functions applied to one item      *)
(*                  drawn from every (status, match_count, counters).      *)
(*   Spec         - users, learning items, exams and the two background    *)
(*                  tasks, interleaved at their await points.              *)
(*   GenSpec      - availability, complete-review partitioning and the     *)
(*                  generation task over one user's collection.            *)
(***************************************************************************)
EXTENDS Integers, Sequences, FiniteSets, TLC

VARIABLES
    probe,        \* ProgressSpec: the UserWordItem the functions are applied to
    plast,        \* ProgressSpec: the last call (op, arguments, item before)
    items,        \* user_word_items rows: item id -> progress fields
    exams,        \* exams rows: exam id -> Exam fields ("absent" = no row)
    spelling,     \* exam_spelling_sections: exam id -> item ids of its rows
    translation,  \* exam_translation_sections: exam id -> words_involved per row
    gen,          \* process_exam_generation task per exam
    sub,          \* submit_exam background task per submission request
    messages,     \* messages rows created by MessageService.create_message
    requests      \* number of client requests served so far

vars == <<probe, plast, items, exams, spelling, translation, gen, sub, messages, requests>>

sysvars == <<items, exams, spelling, translation, gen, sub, messages, requests>>

-----------------------------------------------------------------------------
(* Bounds *)

\* largest counter value an item of ProgressSpec starts with
MaxCount == 1
\* largest match_count an item of ProgressSpec starts with
MaxMatch == 2
\* learning items of the model; the last one belongs to the second user
NumItems == 3
\* exam rows that can be created
MaxExams == 2
\* submit requests that can be served
MaxSubs == 2
\* translation submissions per submit request
MaxSent == 2
\* sentences the LLM returns to a generation task
MaxGenSent == 1
\* client requests (study submit, generate, exam submit) that can be served
MaxRequests == 3
\* the generate request's threshold (10 in api/exam.py), scaled to NumItems
MinAvailable == 2

\* largest pool of status-3 items the partitioning is applied to
MaxPool == 310

\* study sessions: the caps of the samples (20 new, 50 review, 20 random, 100 final)
NewCap == 6
ReviewCap == 2
RandomCap == 1
FinalCap == 2

\* study sessions: the most items of a collection in status 0, in status 1, and in
\* each of the statuses 2 and 3
MaxNew == 7
MaxPending == 5
MaxReviewed == 3

\* item histories: the most operations applied to one item
MaxOps == 5

\* the most starts of the generation task for one exam
MaxRuns == 2

-----------------------------------------------------------------------------
(* Domains *)

Users == {"u1", "u2"}

Items == 1..NumItems

\* UserWordItem.user_id of a row of user_word_items
ItemOwner(i) == items[i].user_id

Statuses == 0..4

\* Exam.mode is a free string of the request; "other" stands for any unknown one
Modes == {"immediate", "random", "complete", "other"}

ExamStatuses == {"pending", "generated", "grading", "completed", "failed"}

ExamIds == 1..MaxExams

SubIds == 1..MaxSubs

-----------------------------------------------------------------------------
(* ProgressService and StudyService.submit_study: UserWordItem -> UserWordItem *)

NewItem ==
    [status |-> 0, review_count |-> 0, fail_count |-> 0, match_count |-> 0,
     study_count |-> 0, last_review_time |-> "null"]

\* reset_to_new that resets the status only above status 1
reset_to_new_above_one(item, is_skip) ==
    LET a == IF is_skip THEN [item EXCEPT !.study_count = @ + 1] ELSE item
        b == [a EXCEPT !.fail_count = @ + 1, !.match_count = 0]
    IN  IF b.status > 1 THEN [b EXCEPT !.status = 0] ELSE b

\* reset_to_new that starts the failure count again
reset_to_new_restarts_failures(item, is_skip) ==
    LET a == IF is_skip THEN [item EXCEPT !.study_count = @ + 1] ELSE item
        b == [a EXCEPT !.fail_count = 1, !.match_count = 0]
    IN  IF b.status > 0 THEN [b EXCEPT !.status = 0] ELSE b

reset_to_new(item, is_skip) ==
    LET a == IF is_skip THEN [item EXCEPT !.study_count = @ + 1] ELSE item
        b == [a EXCEPT !.fail_count = @ + 1, !.match_count = 0]
    IN  IF b.status > 0 THEN [b EXCEPT !.status = 0] ELSE b

\* update_study_progress whose 1 -> 2 branch forgets match_count = 0
update_study_progress_keeps_match(item, is_correct) ==
    LET a == [item EXCEPT !.study_count = @ + 1]
        c == [a EXCEPT !.review_count = @ + 1, !.last_review_time = "set"]
    IN  IF ~is_correct THEN reset_to_new(a, FALSE)
        ELSE IF c.status = 0
             THEN (IF c.match_count = 0
                   THEN [c EXCEPT !.status = 1, !.match_count = 1]
                   ELSE c)
        ELSE IF c.status = 1
             THEN (IF c.match_count = 1 THEN [c EXCEPT !.status = 2] ELSE c)
        ELSE IF c.status = 2 THEN [c EXCEPT !.status = 3]
        ELSE IF c.status = 3 THEN [c EXCEPT !.status = 4]
        ELSE c

\* update_study_progress whose wrong-answer branch calls reset_to_new as for a skip
update_study_progress_counts_twice(item, is_correct) ==
    LET a == [item EXCEPT !.study_count = @ + 1]
        c == [a EXCEPT !.review_count = @ + 1, !.last_review_time = "set"]
    IN  IF ~is_correct THEN reset_to_new(a, TRUE)
        ELSE IF c.status = 0
             THEN (IF c.match_count = 0
                   THEN [c EXCEPT !.status = 1, !.match_count = 1]
                   ELSE c)
        ELSE IF c.status = 1
             THEN (IF c.match_count = 1
                   THEN [c EXCEPT !.status = 2, !.match_count = 0]
                   ELSE c)
        ELSE IF c.status = 2 THEN [c EXCEPT !.status = 3]
        ELSE IF c.status = 3 THEN [c EXCEPT !.status = 4]
        ELSE c

update_study_progress(item, is_correct) ==
    LET a == [item EXCEPT !.study_count = @ + 1]
        c == [a EXCEPT !.review_count = @ + 1, !.last_review_time = "set"]
    IN  IF ~is_correct THEN reset_to_new(a, FALSE)
        ELSE IF c.status = 0
             THEN (IF c.match_count = 0
                   THEN [c EXCEPT !.status = 1, !.match_count = 1]
                   ELSE c)
        ELSE IF c.status = 1
             THEN (IF c.match_count = 1
                   THEN [c EXCEPT !.status = 2, !.match_count = 0]
                   ELSE c)
        ELSE IF c.status = 2 THEN [c EXCEPT !.status = 3]
        ELSE IF c.status = 3 THEN [c EXCEPT !.status = 4]
        ELSE c

\* update_exam_success without the mode test: 2 -> 3 in every mode
update_exam_success_any_mode(item, mode) ==
    LET c == [item EXCEPT !.review_count = @ + 1, !.last_review_time = "set"]
    IN  IF c.status = 2 THEN [c EXCEPT !.status = 3]
        ELSE IF mode = "complete" /\ c.status = 3 THEN [c EXCEPT !.status = 4]
        ELSE c

\* update_exam_success without the status tests: status += 1 in the known modes
update_exam_success_unguarded(item, mode) ==
    LET c == [item EXCEPT !.review_count = @ + 1, !.last_review_time = "set"]
    IN  IF mode \in {"immediate", "random", "complete"}
        THEN [c EXCEPT !.status = @ + 1]
        ELSE c

update_exam_success(item, mode) ==
    LET c == [item EXCEPT !.review_count = @ + 1, !.last_review_time = "set"]
    IN  IF mode \in {"immediate", "random"}
        THEN (IF c.status = 2 THEN [c EXCEPT !.status = 3] ELSE c)
        ELSE IF mode = "complete"
        THEN (IF c.status = 3 THEN [c EXCEPT !.status = 4] ELSE c)
        ELSE c

\* submit_study whose skip branch leaves match_count as it is
submit_study_skip_keeps_match(item, is_skip, is_correct) ==
    IF is_skip
    THEN [item EXCEPT !.fail_count = @ + 1, !.study_count = @ + 1, !.status = 0]
    ELSE LET a == [item EXCEPT !.study_count = @ + 1]
             c == [a EXCEPT !.review_count = @ + 1, !.last_review_time = "set"]
             w == [a EXCEPT !.fail_count = @ + 1, !.match_count = 0]
         IN  IF is_correct
             THEN IF c.status = 0 /\ c.match_count = 0
                      THEN [c EXCEPT !.status = 1, !.match_count = 1]
                  ELSE IF c.status = 1 /\ c.match_count = 1
                      THEN [c EXCEPT !.status = 2, !.match_count = 0]
                  ELSE IF c.status = 2 THEN [c EXCEPT !.status = 3]
                  ELSE IF c.status = 3 THEN [c EXCEPT !.status = 4]
                  ELSE c
             ELSE IF w.status > 0 THEN [w EXCEPT !.status = 0] ELSE w

\* StudyService.submit_study on an item the query found (owned by the caller)
submit_study(item, is_skip, is_correct) ==
    IF is_skip
    THEN [item EXCEPT !.fail_count = @ + 1, !.match_count = 0,
                      !.study_count = @ + 1, !.status = 0]
    ELSE LET a == [item EXCEPT !.study_count = @ + 1]
             c == [a EXCEPT !.review_count = @ + 1, !.last_review_time = "set"]
             w == [a EXCEPT !.fail_count = @ + 1, !.match_count = 0]
         IN  IF is_correct
             THEN IF c.status = 0 /\ c.match_count = 0
                      THEN [c EXCEPT !.status = 1, !.match_count = 1]
                  ELSE IF c.status = 1 /\ c.match_count = 1
                      THEN [c EXCEPT !.status = 2, !.match_count = 0]
                  ELSE IF c.status = 2 THEN [c EXCEPT !.status = 3]
                  ELSE IF c.status = 3 THEN [c EXCEPT !.status = 4]
                  ELSE c
             ELSE IF w.status > 0 THEN [w EXCEPT !.status = 0] ELSE w

\* the status messages the study functions return: "wrong" is the message of a wrong
\* answer, "pending_check", "pending_review", "memorized" and "mastered" those of the
\* four transitions, "keep_going" the default one, "skipped" that of a skip; "None" is
\* the result of a function without a return value

\* reset_to_new returns nothing
reset_to_new_msg(item, is_skip) == "None"

\* the message chosen by the status alone
update_study_progress_msg_by_status(item, is_correct) ==
    IF ~is_correct THEN "wrong"
    ELSE IF item.status = 0 THEN "pending_check"
    ELSE IF item.status = 1 THEN "pending_review"
    ELSE IF item.status = 2 THEN "memorized"
    ELSE IF item.status = 3 THEN "mastered"
    ELSE "keep_going"

\* the status_msg update_study_progress returns
update_study_progress_msg(item, is_correct) ==
    IF ~is_correct THEN "wrong"
    ELSE IF item.status = 0
         THEN (IF item.match_count = 0 THEN "pending_check" ELSE "keep_going")
    ELSE IF item.status = 1
         THEN (IF item.match_count = 1 THEN "pending_review" ELSE "keep_going")
    ELSE IF item.status = 2 THEN "memorized"
    ELSE IF item.status = 3 THEN "mastered"
    ELSE "keep_going"

\* the status_update submit_study returns
submit_study_msg(item, is_skip, is_correct) ==
    IF is_skip THEN "skipped"
    ELSE IF ~is_correct THEN "wrong"
    ELSE IF item.status = 0 /\ item.match_count = 0 THEN "pending_check"
    ELSE IF item.status = 1 /\ item.match_count = 1 THEN "pending_review"
    ELSE IF item.status = 2 THEN "memorized"
    ELSE IF item.status = 3 THEN "mastered"
    ELSE "keep_going"

-----------------------------------------------------------------------------
(* ProgressSpec: every transition function applied to every item *)

ProbeItems ==
    [status : Statuses, review_count : 0..MaxCount, fail_count : 0..MaxCount,
     match_count : 0..MaxMatch, study_count : 0..MaxCount,
     last_review_time : {"null", "set"}]

NoCall == [op |-> "none", svc |-> "none", mode |-> "none", before |-> NewItem]

\* the inputs are drawn once; each behaviour applies one function to one input
ProbeFresh == plast.op = "none"

PStudyCorrectProgress ==
    /\ ProbeFresh
    /\ probe' = update_study_progress(probe, TRUE)
    /\ plast' = [op |-> "correct", svc |-> "progress", mode |-> "none", before |-> probe]
    /\ UNCHANGED sysvars

PStudyCorrectStudy ==
    /\ ProbeFresh
    /\ probe' = submit_study(probe, FALSE, TRUE)
    /\ plast' = [op |-> "correct", svc |-> "study", mode |-> "none", before |-> probe]
    /\ UNCHANGED sysvars

PStudyIncorrectProgress ==
    /\ ProbeFresh
    /\ probe' = update_study_progress(probe, FALSE)
    /\ plast' = [op |-> "incorrect", svc |-> "progress", mode |-> "none", before |-> probe]
    /\ UNCHANGED sysvars

PStudyIncorrectStudy ==
    /\ ProbeFresh
    /\ probe' = submit_study(probe, FALSE, FALSE)
    /\ plast' = [op |-> "incorrect", svc |-> "study", mode |-> "none", before |-> probe]
    /\ UNCHANGED sysvars

PSkipStudy ==
    /\ ProbeFresh
    /\ \E c \in BOOLEAN : probe' = submit_study(probe, TRUE, c)
    /\ plast' = [op |-> "skip", svc |-> "study", mode |-> "none", before |-> probe]
    /\ UNCHANGED sysvars

PResetToNew ==
    /\ ProbeFresh
    /\ \E is_skip \in BOOLEAN :
          /\ probe' = reset_to_new(probe, is_skip)
          /\ plast' = [op |-> IF is_skip THEN "reset_skip" ELSE "reset",
                       svc |-> "progress", mode |-> "none", before |-> probe]
    /\ UNCHANGED sysvars

PExamSuccess ==
    /\ ProbeFresh
    /\ \E m \in Modes :
          /\ probe' = update_exam_success(probe, m)
          /\ plast' = [op |-> "exam_success", svc |-> "progress", mode |-> m,
                       before |-> probe]
    /\ UNCHANGED sysvars

-----------------------------------------------------------------------------
(* Rows and tasks of the system *)

\* word_id of an item (every item of the model tracks a word of its own)
ItemWord(i) == i

\* the item after s consecutive correct study answers on a new item
StudiedItem(s) ==
    [status |-> s, review_count |-> s, fail_count |-> 0,
     match_count |-> IF s = 1 THEN 1 ELSE 0, study_count |-> s,
     last_review_time |-> IF s = 0 THEN "null" ELSE "set"]

\* the row of user u for a word taken to status s, last reviewed at t
OwnedItem(u, s, t) ==
    LET r == StudiedItem(s)
    IN  [user_id |-> u, status |-> r.status, review_count |-> r.review_count,
         fail_count |-> r.fail_count, match_count |-> r.match_count,
         study_count |-> r.study_count, last_review_time |-> t]

\* statuses the items of a behaviour start with
InitStatuses == {2, 3}

\* Spec: the last item is the second user's, the rest the first's
FirstOwner(i) == IF i = NumItems THEN "u2" ELSE "u1"

NoExam ==
    [user_id |-> "none", mode |-> "none", exam_status |-> "absent",
     total_words |-> 0, spelling_words_count |-> 0,
     translation_sentences_count |-> 0, generation_error |-> "null",
     completed_at |-> "null"]

\* a generation task: its position, its arguments, the items it selected, the session
\* it was given ("request": the session of the request that scheduled it) and how often
\* it has been started for the exam
NoGen ==
    [pc |-> "none", mode |-> "none", target_count |-> 0, selected |-> {},
     session |-> "none", runs |-> 0]

NoSub ==
    [pc |-> "none", exam_id |-> 0, user_id |-> "none", wrong |-> {},
     sents |-> <<>>, idx |-> 0, replies |-> <<>>, failed |-> {}, results |-> <<>>,
     passed |-> {}, completed |-> FALSE, before |-> [i \in Items |-> 0],
     session |-> "none"]

Exists(e) == exams[e].exam_status # "absent"

\* id: default_factory=uuid4: an id no exam has had before
FreshId(e) == ~Exists(e) /\ gen[e].pc = "none"

Min(a, b) == IF a < b THEN a ELSE b

\* MessageService.create_message either inserts the row or raises
NotifyOutcomes == {"sent", "error"}

create_message(user_id, title) == messages \cup {[user_id |-> user_id, title |-> title]}

-----------------------------------------------------------------------------
(* StudyService.submit_study behind POST /api/study/submit *)

\* (an item of another user is not found and nothing changes)
StudySubmit(u, i, is_skip, is_correct) ==
    /\ requests < MaxRequests
    /\ ItemOwner(i) = u
    /\ requests' = requests + 1
    /\ items' = [items EXCEPT ![i] = submit_study(items[i], is_skip, is_correct)]
    /\ UNCHANGED <<probe, plast, exams, spelling, translation, gen, sub, messages>>

-----------------------------------------------------------------------------
(* ExamService: availability, exam row, generation task *)

ModePredicate(mode, status) ==
    IF mode = "complete" THEN status = 3
    ELSE IF mode = "random" THEN status \in {2, 4}
    ELSE status = 2

\* check_review_availability without the lock on an active complete exam
check_review_availability_no_lock(user_id, mode) ==
    LET has_active_complete ==
            \E e \in ExamIds : /\ exams[e].user_id = user_id
                               /\ exams[e].mode = "complete"
                               /\ exams[e].exam_status \in {"pending", "generated", "grading"}
        unmastered == {i \in Items : ItemOwner(i) = user_id /\ items[i].status < 3}
        active_exams ==
            {e \in ExamIds : /\ exams[e].user_id = user_id
                             /\ exams[e].mode = mode
                             /\ exams[e].exam_status \in {"generated", "grading", "pending"}}
        active_word_ids == {ItemWord(i) : i \in UNION {spelling[e] : e \in active_exams}}
        eligible == {i \in Items : /\ ItemOwner(i) = user_id
                                   /\ ItemWord(i) \notin active_word_ids
                                   /\ ModePredicate(mode, items[i].status)}
    IN  IF mode = "complete" /\ unmastered # {}
        THEN 0
        ELSE Cardinality(eligible)

\* check_review_availability without the test for items below status 3
check_review_availability_no_precondition(user_id, mode) ==
    LET has_active_complete ==
            \E e \in ExamIds : /\ exams[e].user_id = user_id
                               /\ exams[e].mode = "complete"
                               /\ exams[e].exam_status \in {"pending", "generated", "grading"}
        unmastered == {i \in Items : ItemOwner(i) = user_id /\ items[i].status < 3}
        active_exams ==
            {e \in ExamIds : /\ exams[e].user_id = user_id
                             /\ exams[e].mode = mode
                             /\ exams[e].exam_status \in {"generated", "grading", "pending"}}
        active_word_ids == {ItemWord(i) : i \in UNION {spelling[e] : e \in active_exams}}
        eligible == {i \in Items : /\ ItemOwner(i) = user_id
                                   /\ ItemWord(i) \notin active_word_ids
                                   /\ ModePredicate(mode, items[i].status)}
    IN  IF mode = "complete" /\ has_active_complete
        THEN 0
        ELSE Cardinality(eligible)

\* ExamService.check_review_availability: the count the generate request compares
check_review_availability(user_id, mode) ==
    LET has_active_complete ==
            \E e \in ExamIds : /\ exams[e].user_id = user_id
                               /\ exams[e].mode = "complete"
                               /\ exams[e].exam_status \in {"pending", "generated", "grading"}
        unmastered == {i \in Items : ItemOwner(i) = user_id /\ items[i].status < 3}
        active_exams ==
            {e \in ExamIds : /\ exams[e].user_id = user_id
                             /\ exams[e].mode = mode
                             /\ exams[e].exam_status \in {"generated", "grading", "pending"}}
        active_word_ids == {ItemWord(i) : i \in UNION {spelling[e] : e \in active_exams}}
        eligible == {i \in Items : /\ ItemOwner(i) = user_id
                                   /\ ItemWord(i) \notin active_word_ids
                                   /\ ModePredicate(mode, items[i].status)}
    IN  IF mode = "complete" /\ (has_active_complete \/ unmastered # {})
        THEN 0
        ELSE Cardinality(eligible)

create_exam_record(user_id, mode, count) ==
    [user_id |-> user_id, mode |-> mode, exam_status |-> "pending",
     total_words |-> count, spelling_words_count |-> count,
     translation_sentences_count |-> 0, generation_error |-> "null",
     completed_at |-> "null"]

\* the threshold test off by one: a count one below the threshold passes
below_threshold_off_by_one(available_count) == available_count < MinAvailable - 1

\* if available_count < 10: the request is rejected
below_threshold(available_count) == available_count < MinAvailable

\* POST /api/exam/generate below the threshold: the early return, nothing is written
generate_exam_rejected(u, mode) ==
    /\ requests < MaxRequests
    /\ requests' = requests + 1
    /\ below_threshold(check_review_availability(u, mode))
    /\ UNCHANGED <<probe, plast, items, exams, spelling, translation, gen, sub, messages>>

\* POST /api/exam/generate: a request below the threshold is rejected and changes nothing
generate_exam(u, mode, count) ==
    \E e \in ExamIds :
        /\ FreshId(e)
        /\ \A f \in ExamIds : f < e => ~FreshId(f)
        /\ requests < MaxRequests
        /\ requests' = requests + 1
        /\ ~below_threshold(check_review_availability(u, mode))
        /\ exams' = [exams EXCEPT ![e] = create_exam_record(u, mode, count)]
        /\ gen' = [gen EXCEPT ![e] = [pc |-> "queued", mode |-> mode,
                                      target_count |-> count, selected |-> {},
                                      session |-> "request", runs |-> 1]]
        /\ UNCHANGED <<probe, plast, items, spelling, translation, sub, messages>>

\* the query with the mode restriction the code has commented out: only exams of the
\* same mode exclude their words
GenPool_same_mode(e, mode) ==
    LET exam == exams[e]
        active_exams ==
            {f \in ExamIds : /\ exams[f].user_id = exam.user_id
                             /\ exams[f].mode = mode
                             /\ exams[f].exam_status \in {"generated", "grading"}
                             /\ f # e}
        active_word_ids == {ItemWord(i) : i \in UNION {spelling[f] : f \in active_exams}}
    IN  {i \in Items : /\ ItemOwner(i) = exam.user_id
                       /\ (mode = "immediate" => ItemWord(i) \notin active_word_ids)
                       /\ ModePredicate(mode, items[i].status)}

\* the query of process_exam_generation without specific_item_ids
GenPool(e, mode) ==
    LET exam == exams[e]
        active_exams ==
            {f \in ExamIds : /\ exams[f].user_id = exam.user_id
                             /\ exams[f].exam_status \in {"generated", "grading"}
                             /\ f # e}
        active_word_ids == {ItemWord(i) : i \in UNION {spelling[f] : f \in active_exams}}
    IN  {i \in Items : /\ ItemOwner(i) = exam.user_id
                       /\ (mode = "immediate" => ItemWord(i) \notin active_word_ids)
                       /\ ModePredicate(mode, items[i].status)}

\* random.sample(all_items, min(target_count, len)) and all_items[:target_count]
Selections(pool, target_count) ==
    {s \in SUBSET pool : Cardinality(s) = Min(target_count, Cardinality(pool))}

\* position of a last_review_time under ORDER BY ... DESC: "old" is a time before the
\* behaviour starts, "set" a utcnow() of the behaviour, and PostgreSQL puts NULL first
TimeRank(t) == IF t = "null" THEN 3 ELSE IF t = "set" THEN 2 ELSE 1

\* all_items[:target_count] of a query without its order_by
FirstByTime_unordered(pool, target_count) == Selections(pool, target_count)

\* all_items[:target_count] of the query ordered by desc(last_review_time)
FirstByTime(pool, target_count) ==
    {s \in Selections(pool, target_count) :
        \A i \in s, j \in pool \ s :
            TimeRank(items[i].last_review_time) >= TimeRank(items[j].last_review_time)}

\* selected_items without specific_item_ids
SelectItems(mode, pool, target_count) ==
    IF mode = "immediate"
    THEN FirstByTime(pool, target_count)
    ELSE Selections(pool, target_count)

\* the failure recorded without its reason
FailExam_no_reason(row, err) == [row EXCEPT !.exam_status = "failed"]

\* the except branch: exam.exam_status = "failed", generation_error = str(e)
FailExam(row, err) == [row EXCEPT !.exam_status = "failed", !.generation_error = err]

\* what the LLM's sentences resolve to: words_involved of each returned sentence
GenSentences(selected) ==
    UNION {[1..n -> {{}, selected}] : n \in 0..MaxGenSent}

\* process_exam_generation up to the await of generate_exam_sentences
GenSelect(e) ==
    /\ gen[e].pc = "queued"
    /\ IF ~Exists(e)
       THEN \* if not exam: return
            /\ gen' = [gen EXCEPT ![e].pc = "done"]
            /\ UNCHANGED <<exams, messages>>
       ELSE
       \E selected \in SelectItems(gen[e].mode, GenPool(e, gen[e].mode),
                                   gen[e].target_count) :
         IF selected = {}
         THEN \E n1, n2 \in NotifyOutcomes :
                /\ n1 = "sent" => n2 = "sent"
                /\ exams' = [exams EXCEPT ![e] =
                                IF n1 = "sent" THEN FailExam(exams[e], "no_words")
                                ELSE FailExam(exams[e], "exception")]
                /\ messages' = IF n2 = "sent"
                               THEN create_message(exams[e].user_id, "gen_failed")
                               ELSE messages
                /\ gen' = [gen EXCEPT ![e].pc = IF n2 = "sent" THEN "done" ELSE "raised"]
         ELSE /\ gen' = [gen EXCEPT ![e].pc = "llm", ![e].selected = selected]
              /\ UNCHANGED <<exams, messages>>
    /\ UNCHANGED <<probe, plast, items, spelling, translation, sub, requests>>

\* the exam row was deleted while the task awaited the LLM: the commit of the except
\* branch updates no row and raises out of the task, the transaction is rolled back
GenRowGone(e) ==
    /\ gen' = [gen EXCEPT ![e].pc = "raised"]
    /\ UNCHANGED <<exams, spelling, translation, messages>>

\* generate_exam_sentences raised (or returned something without sentences to read):
\* the except branch commits the session, spelling rows included
GenLLMError(e) ==
    /\ gen[e].pc = "llm"
    /\ IF ~Exists(e)
       THEN GenRowGone(e)
       ELSE
       \E n \in NotifyOutcomes :
         /\ exams' = [exams EXCEPT ![e] = FailExam(exams[e], "exception")]
         /\ spelling' = [spelling EXCEPT ![e] = @ \cup gen[e].selected]
         /\ messages' = IF n = "sent"
                        THEN create_message(exams[e].user_id, "gen_failed")
                        ELSE messages
         /\ gen' = [gen EXCEPT ![e].pc = IF n = "sent" THEN "done" ELSE "raised"]
         /\ UNCHANGED translation
    /\ UNCHANGED <<probe, plast, items, sub, requests>>

\* generate_exam_sentences returned: rows committed, status generated, notification
GenLLMDone(e) ==
    /\ gen[e].pc = "llm"
    /\ IF ~Exists(e)
       THEN GenRowGone(e)
       ELSE
       \E sl \in GenSentences(gen[e].selected), n1, n2 \in NotifyOutcomes :
         LET row == [exams[e] EXCEPT
                        !.exam_status = "generated",
                        !.spelling_words_count = Cardinality(gen[e].selected),
                        !.translation_sentences_count = Len(sl)]
         IN  /\ n1 = "sent" => n2 = "sent"
             /\ spelling' = [spelling EXCEPT ![e] = @ \cup gen[e].selected]
             /\ translation' = [translation EXCEPT ![e] = @ \o sl]
             /\ exams' = [exams EXCEPT ![e] =
                             IF n1 = "sent" THEN row ELSE FailExam(row, "exception")]
             /\ messages' = IF n1 = "sent"
                            THEN create_message(exams[e].user_id, "gen_done")
                            ELSE IF n2 = "sent"
                            THEN create_message(exams[e].user_id, "gen_failed")
                            ELSE messages
             /\ gen' = [gen EXCEPT ![e].pc = IF n2 = "sent" THEN "done" ELSE "raised"]
    /\ UNCHANGED <<probe, plast, items, sub, requests>>

-----------------------------------------------------------------------------
(* ExamService: complete-review partitioning *)

\* the thresholds read as inclusive upper limits
PartitionCount_inclusive(N) ==
    IF N <= 50 THEN 1 ELSE IF N <= 150 THEN 2 ELSE IF N <= 300 THEN 5 ELSE 10

\* K of prepare_complete_review_exams for a pool of N status-3 items
PartitionCount(N) ==
    IF N < 50 THEN 1 ELSE IF N < 150 THEN 2 ELSE IF N < 300 THEN 5 ELSE 10

\* the split into K consecutive slices of N \div K items, the rest going to the last
Chunks_contiguous(items_list, K) ==
    LET N == Len(items_list)
        q == N \div K
    IN  [k \in 1..K |->
            {items_list[i] : i \in {j \in 1..N :
                /\ j > (k - 1) * q
                /\ (k = K \/ j <= k * q)}}]

\* chunks = [[] for _ in range(K)]; chunks[i % K].append(item) for i, item in
\* enumerate(items_list); chunk k here is chunks[k - 1] of the code
Chunks(items_list, K) ==
    [k \in 1..K |->
        {items_list[i] : i \in {j \in 1..Len(items_list) : (j - 1) % K = k - 1}}]

\* random.shuffle(items_list): every arrangement of the pool
Shuffles(pool) ==
    {l \in [1..Cardinality(pool) -> pool] :
        \A a, b \in 1..Cardinality(pool) : a # b => l[a] # l[b]}

\* the chunks the shuffle can produce
RoundRobin(pool, K) == {Chunks(l, K) : l \in Shuffles(pool)}

\* prepare_complete_review_exams: one pending complete exam per non-empty chunk, each
\* returned with its item ids (gen pc "prepared"); no lock and no availability check
prepare_complete_review_exams(u) ==
    LET pool == {i \in Items : ItemOwner(i) = u /\ items[i].status = 3}
        N == Cardinality(pool)
        K == PartitionCount(N)
        free == {e \in ExamIds : FreshId(e)}
    IN  /\ requests < MaxRequests
        /\ requests' = requests + 1
        /\ N > 0
        /\ \E chunks \in RoundRobin(pool, K) :
             LET used == {k \in 1..K : chunks[k] # {}}
                 ids == {e \in free :
                           Cardinality({f \in free : f < e}) < Cardinality(used)}
                 chunk_of(e) ==
                     CHOOSE k \in used :
                         Cardinality({l \in used : l < k}) =
                             Cardinality({f \in free : f < e})
             IN  /\ Cardinality(ids) = Cardinality(used)
                 /\ exams' = [e \in ExamIds |->
                        IF e \in ids
                        THEN create_exam_record(u, "complete",
                                                Cardinality(chunks[chunk_of(e)]))
                        ELSE exams[e]]
                 /\ gen' = [e \in ExamIds |->
                        IF e \in ids
                        THEN [pc |-> "prepared", mode |-> "complete",
                              target_count |-> Cardinality(chunks[chunk_of(e)]),
                              selected |-> chunks[chunk_of(e)],
                              session |-> "none", runs |-> 0]
                        ELSE gen[e]]
        /\ UNCHANGED <<probe, plast, items, spelling, translation, sub, messages>>

-----------------------------------------------------------------------------
(* ExamService: submission *)

mark_exam_as_grading(e) ==
    IF Exists(e) THEN [exams EXCEPT ![e].exam_status = "grading"] ELSE exams

\* wrong_words of a submit request that carries n sentences
WrongOf(n) == IF n = 0 THEN {} ELSE IF n = 1 THEN {NumItems} ELSE {2, NumItems}

\* words_involved of the k-th submitted sentence
InvolvedOf(k) == IF k % 2 = 1 THEN {1} ELSE {2, NumItems}

\* the submit requests served: wrong_words and sentences
SubmitChoices ==
    {[wrong |-> WrongOf(n), sents |-> [k \in 1..n |-> InvolvedOf(k)]] : n \in 0..MaxSent}

\* what _safe_llm_call gives grade_translation: a JSON object with correct true or
\* false, JSON that is no object, or an LLMServiceError
LLMReplies == {"correct", "incorrect", "nondict", "llm_error"}

\* grade_translation without its except branch: the LLMServiceError leaves it
grade_translation_propagates(reply) ==
    IF reply \in {"llm_error", "nondict"}
    THEN [shape |-> "nondict", correct |-> FALSE, feedback |-> "none"]
    ELSE [shape |-> "dict", correct |-> (reply = "correct"), feedback |-> "llm"]

\* LLMService.grade_translation: the reply is passed through, an error becomes the fallback
grade_translation(reply) ==
    IF reply = "llm_error"
    THEN [shape |-> "dict", correct |-> FALSE, feedback |-> "unavailable"]
    ELSE IF reply = "nondict"
    THEN [shape |-> "nondict", correct |-> FALSE, feedback |-> "none"]
    ELSE [shape |-> "dict", correct |-> (reply = "correct"), feedback |-> "llm"]

\* the failed set replaced by, instead of extended with, the involved ids
FailedAfter_overwrite(failed, grading_result, involved) ==
    IF grading_result.correct THEN failed ELSE involved

\* failed_word_ids_set after one sentence: the involved ids of an incorrect one are added
FailedAfter(failed, grading_result, involved) ==
    IF grading_result.correct THEN failed ELSE failed \cup involved

\* passed_item_ids = all_exam_item_ids - failed_word_ids_set
PassedItems(e, failed) == spelling[e] \ failed

\* the update loops without the uw_item.user_id == user_id test
ApplyResults_no_owner_test(e, user_id, failed) ==
    [i \in Items |->
        IF i \in failed
        THEN reset_to_new(items[i], FALSE)
        ELSE IF i \in PassedItems(e, failed)
        THEN update_exam_success(items[i], exams[e].mode)
        ELSE items[i]]

\* the two update loops of submit_exam over the failed and the passed items
ApplyResults(e, user_id, failed) ==
    [i \in Items |->
        IF i \in failed /\ ItemOwner(i) = user_id
        THEN reset_to_new(items[i], FALSE)
        ELSE IF i \in PassedItems(e, failed) /\ ItemOwner(i) = user_id
        THEN update_exam_success(items[i], exams[e].mode)
        ELSE items[i]]

\* submit_exam from the update loops to its end: items, completed, notification
Complete(t, replies, failed, results, n) ==
    LET e == sub[t].exam_id
    IN  /\ items' = ApplyResults(e, sub[t].user_id, failed)
        /\ exams' = [exams EXCEPT ![e].exam_status = "completed",
                                  ![e].completed_at = "set"]
        /\ messages' = IF n = "sent"
                       THEN create_message(sub[t].user_id, "exam_result")
                       ELSE messages
        /\ sub' = [sub EXCEPT ![t].pc = IF n = "sent" THEN "done" ELSE "raised",
                              ![t].replies = replies,
                              ![t].failed = failed,
                              ![t].results = results,
                              ![t].passed = PassedItems(e, failed),
                              ![t].completed = TRUE,
                              ![t].before = [i \in Items |-> items[i].status]]

\* POST /api/exam/submit: mark the exam grading, schedule the submission task
submit_exam_request(u, e, wrong, sents) ==
    \E t \in SubIds :
        /\ sub[t].pc = "none"
        /\ \A r \in SubIds : r < t => sub[r].pc # "none"
        /\ Exists(e)
        /\ requests < MaxRequests
        /\ requests' = requests + 1
        /\ exams' = mark_exam_as_grading(e)
        /\ sub' = [sub EXCEPT ![t] = [NoSub EXCEPT !.pc = "queued", !.exam_id = e,
                                                   !.user_id = u, !.wrong = wrong,
                                                   !.sents = sents,
                                                   !.session = "request"]]
        /\ UNCHANGED <<probe, plast, items, spelling, translation, gen, messages>>

\* submit_exam from its start to the first await of grade_translation
\* (no sentence: to its end)
SubStart(t) ==
    /\ sub[t].pc = "queued"
    /\ IF ~Exists(sub[t].exam_id)
       THEN \* raise ValueError("Exam not found")
            /\ sub' = [sub EXCEPT ![t].pc = "raised"]
            /\ UNCHANGED <<items, exams, messages>>
       ELSE IF sub[t].sents = <<>>
       THEN \E n \in NotifyOutcomes : Complete(t, <<>>, sub[t].wrong, <<>>, n)
       ELSE /\ sub' = [sub EXCEPT ![t].pc = "llm", ![t].idx = 1,
                                  ![t].failed = sub[t].wrong]
            /\ UNCHANGED <<items, exams, messages>>
    /\ UNCHANGED <<probe, plast, spelling, translation, gen, requests>>

\* grade_translation returns for sentence idx; the loop goes on to the next await or,
\* after the last sentence, to the end of submit_exam
SubGrade(t) ==
    /\ sub[t].pc = "llm"
    /\ \E reply \in LLMReplies :
         LET grading_result == grade_translation(reply)
             k == sub[t].idx
             replies == Append(sub[t].replies, reply)
             failed == FailedAfter(sub[t].failed, grading_result, sub[t].sents[k])
             results == Append(sub[t].results,
                               [is_correct |-> grading_result.correct,
                                feedback |-> grading_result.feedback])
         IN  IF grading_result.shape # "dict"
             THEN /\ sub' = [sub EXCEPT ![t].pc = "raised", ![t].replies = replies]
                  /\ UNCHANGED <<items, exams, messages>>
             ELSE IF k < Len(sub[t].sents)
             THEN /\ sub' = [sub EXCEPT ![t].idx = k + 1, ![t].replies = replies,
                                        ![t].failed = failed, ![t].results = results]
                  /\ UNCHANGED <<items, exams, messages>>
             ELSE \E n \in NotifyOutcomes : Complete(t, replies, failed, results, n)
    /\ UNCHANGED <<probe, plast, spelling, translation, gen, requests>>

\* process_exam_generation started once more for an exam whose task has ended, with
\* the arguments of the first run
process_exam_generation_again(e) ==
    /\ Exists(e)
    /\ gen[e].pc \in {"done", "raised"}
    /\ gen[e].runs < MaxRuns
    /\ gen' = [gen EXCEPT ![e].pc = "queued", ![e].selected = {}, ![e].runs = @ + 1]
    /\ UNCHANGED <<probe, plast, items, exams, spelling, translation, sub, messages,
                   requests>>

-----------------------------------------------------------------------------
(* ExamService.delete_exam behind DELETE /api/exam/{exam_id} *)

\* the decision taken without the status test
delete_outcome_any_status(row, user_id) ==
    IF row.exam_status = "absent" THEN "not_found"
    ELSE IF row.user_id # user_id THEN "not_owner"
    ELSE "deleted"

\* return False (404), ValueError for another user's exam or for a status other than
\* completed and failed (403), else the deletion
delete_outcome(row, user_id) ==
    IF row.exam_status = "absent" THEN "not_found"
    ELSE IF row.user_id # user_id THEN "not_owner"
    ELSE IF row.exam_status \notin {"completed", "failed"} THEN "not_deletable"
    ELSE "deleted"

\* the request is recorded in plast with its number and outcome; a deletion removes
\* the exam's spelling rows, its translation rows and the exam in one commit
delete_exam(u, e) ==
    LET outcome == delete_outcome(exams[e], u)
    IN  /\ requests < MaxRequests
        /\ requests' = requests + 1
        /\ plast' = [op |-> "delete_exam", user_id |-> u, exam_id |-> e,
                      outcome |-> outcome, request |-> requests + 1]
        /\ IF outcome = "deleted"
           THEN /\ exams' = [exams EXCEPT ![e] = NoExam]
                /\ spelling' = [spelling EXCEPT ![e] = {}]
                /\ translation' = [translation EXCEPT ![e] = <<>>]
           ELSE UNCHANGED <<exams, spelling, translation>>
        /\ UNCHANGED <<probe, items, gen, sub, messages>>

-----------------------------------------------------------------------------
(* Specifications *)

\* count and mode of a generate request
GenerateCounts == {2}

RequestModes == {"immediate", "random", "complete"}

Init ==
    /\ probe = NewItem
    /\ plast = NoCall
    /\ items \in {f \in [Items -> {OwnedItem(u, s, "set") : u \in Users, s \in InitStatuses}] :
                    /\ \A i \in Items : f[i].user_id = FirstOwner(i)
                    /\ f[NumItems].status = 2}
    /\ exams = [e \in ExamIds |-> NoExam]
    /\ spelling = [e \in ExamIds |-> {}]
    /\ translation = [e \in ExamIds |-> <<>>]
    /\ gen = [e \in ExamIds |-> NoGen]
    /\ sub = [t \in SubIds |-> NoSub]
    /\ messages = {}
    /\ requests = 0

Next ==
    \/ \E u \in Users, i \in Items, is_skip \in BOOLEAN, is_correct \in BOOLEAN :
          (is_skip => is_correct) /\ StudySubmit(u, i, is_skip, is_correct)
    \/ \E u \in Users, mode \in RequestModes, count \in GenerateCounts :
          generate_exam(u, mode, count)
    \/ \E e \in ExamIds : GenSelect(e)
    \/ \E e \in ExamIds : GenLLMError(e)
    \/ \E e \in ExamIds : GenLLMDone(e)
    \/ \E u \in Users, e \in ExamIds, c \in SubmitChoices :
          submit_exam_request(u, e, c.wrong, c.sents)
    \/ \E t \in SubIds : SubStart(t)
    \/ \E t \in SubIds : SubGrade(t)

Spec == Init /\ [][Next]_vars

\* GenSpec: availability, partitioning and generation over one user's collection of
\* items in every review status, reviewed before or during the behaviour
GenStatuses == {2, 3, 4}

GenTimes == {"old", "set"}

\* the rows of a collection are numbered by last review, oldest first, then by status
GenOrder(row) == 5 * TimeRank(row.last_review_time) + row.status

GenInit ==
    /\ probe = NewItem
    /\ plast = NoCall
    /\ items \in {f \in [Items -> {OwnedItem("u1", s, t) : s \in GenStatuses,
                                                            t \in GenTimes}] :
                    \A i, j \in Items : i < j => GenOrder(f[i]) <= GenOrder(f[j])}
    /\ exams = [e \in ExamIds |-> NoExam]
    /\ spelling = [e \in ExamIds |-> {}]
    /\ translation = [e \in ExamIds |-> <<>>]
    /\ gen = [e \in ExamIds |-> NoGen]
    /\ sub = [t \in SubIds |-> NoSub]
    /\ messages = {}
    /\ requests = 0

GenNext ==
    \/ \E u \in Users, mode \in RequestModes : generate_exam_rejected(u, mode)
    \/ \E u \in Users, mode \in RequestModes, count \in GenerateCounts :
          generate_exam(u, mode, count)
    \/ \E u \in Users : prepare_complete_review_exams(u)
    \/ \E e \in ExamIds : GenSelect(e)
    \/ \E e \in ExamIds : GenLLMError(e)
    \/ \E e \in ExamIds : GenLLMDone(e)
    \/ \E u \in Users, e \in ExamIds : submit_exam_request(u, e, {}, <<>>)
    \/ \E t \in SubIds : SubStart(t)

GenSpec == GenInit /\ [][GenNext]_vars

\* RerunSpec: generation with the task started again, submissions without sentences
RerunNext ==
    \/ \E u \in Users, mode \in RequestModes, count \in GenerateCounts :
          generate_exam(u, mode, count)
    \/ \E e \in ExamIds : GenSelect(e)
    \/ \E e \in ExamIds : GenLLMError(e)
    \/ \E e \in ExamIds : GenLLMDone(e)
    \/ \E u \in Users, e \in ExamIds : submit_exam_request(u, e, {}, <<>>)
    \/ \E t \in SubIds : SubStart(t)
    \/ \E e \in ExamIds : process_exam_generation_again(e)

RerunSpec == Init /\ [][RerunNext]_vars

\* DeleteSpec: generation, submissions without sentences and deletion of exams
DeleteNext ==
    \/ \E u \in Users, mode \in RequestModes, count \in GenerateCounts :
          generate_exam(u, mode, count)
    \/ \E e \in ExamIds : GenSelect(e)
    \/ \E e \in ExamIds : GenLLMError(e)
    \/ \E e \in ExamIds : GenLLMDone(e)
    \/ \E u \in Users, e \in ExamIds : submit_exam_request(u, e, {}, <<>>)
    \/ \E t \in SubIds : SubStart(t)
    \/ \E u \in Users, e \in ExamIds : delete_exam(u, e)

DeleteSpec == Init /\ [][DeleteNext]_vars

------------------------------------------------------------------------------
(* The complete-review partitioning applied to whole collections (PartitionSpec) *)

\* the columns of user_word_items the collection queries read
CollectionRow(user_id, collection_id, status) ==
    [user_id |-> user_id, collection_id |-> collection_id, status |-> status]

\* user_word_items holding n status-3 items of u1 in collection c1 (ids 1..n), one
\* status-2 item of the same collection, a status-3 item of u1 in collection c3 and a
\* status-3 item of u2 in collection c2
PartitionTable(n) ==
    [i \in 1..(n + 3) |->
        IF i <= n THEN CollectionRow("u1", "c1", 3)
        ELSE IF i = n + 1 THEN CollectionRow("u1", "c1", 2)
        ELSE IF i = n + 2 THEN CollectionRow("u1", "c3", 3)
        ELSE CollectionRow("u2", "c2", 3)]

\* select(UserWordItem).where(user_id, collection_id, status == 3)
CompleteItems(table, user_id, collection_id) ==
    {i \in DOMAIN table :
        /\ table[i].user_id = user_id
        /\ table[i].collection_id = collection_id
        /\ table[i].status = 3}

\* the (user, collection) pairs the function is called for
PartitionCallers == {<<"u1", "c1">>, <<"u1", "c3">>, <<"u2", "c2">>}

\* the shuffles tried: the pool rotated by one of these shifts, forwards or backwards
ShuffleShifts == {0, 1, 7}

\* one arrangement of a pool lo..lo+n-1
Arrangement(lo, n, r, rev) ==
    [i \in 1..n |-> lo + (((IF rev THEN n - i ELSE i - 1) + r) % n)]

\* prepare_complete_review_exams as a function of the table: the (exam, item_ids)
\* pairs it returns
PPrepareComplete(user_id, collection_id) ==
    LET pool == CompleteItems(items, user_id, collection_id)
        N == Cardinality(pool)
        K == PartitionCount(N)
    IN  /\ plast = NoCall
        /\ IF N = 0
           THEN plast' = [op |-> "prepare", user_id |-> user_id,
                          collection_id |-> collection_id, result |-> <<>>]
           ELSE \E r \in ShuffleShifts, rev \in BOOLEAN :
                  LET lo == CHOOSE x \in pool : \A y \in pool : x <= y
                      chunks == Chunks(Arrangement(lo, N, r, rev), K)
                      NonEmpty(k) == chunks[k] # {}
                      kept == SelectSeq([k \in 1..K |-> k], NonEmpty)
                  IN  plast' =
                        [op |-> "prepare", user_id |-> user_id,
                         collection_id |-> collection_id,
                         result |-> [j \in 1..Len(kept) |->
                            [exam |-> create_exam_record(user_id, "complete",
                                          Cardinality(chunks[kept[j]])),
                             item_ids |-> chunks[kept[j]]]]]
        /\ UNCHANGED <<probe, items, exams, spelling, translation, gen, sub,
                       messages, requests>>

PartitionInit ==
    /\ items \in {PartitionTable(n) : n \in 0..MaxPool}
    /\ probe = NewItem
    /\ plast = NoCall
    /\ exams = [e \in ExamIds |-> NoExam]
    /\ spelling = [e \in ExamIds |-> {}]
    /\ translation = [e \in ExamIds |-> <<>>]
    /\ gen = [e \in ExamIds |-> NoGen]
    /\ sub = [t \in SubIds |-> NoSub]
    /\ messages = {}
    /\ requests = 0

PartitionNext == \E call \in PartitionCallers : PPrepareComplete(call[1], call[2])

PartitionSpec == PartitionInit /\ [][PartitionNext]_vars

------------------------------------------------------------------------------
(* StudyService.get_study_session behind GET /api/study/session (StudySpec) *)

StudyModes == {"new", "review", "random", "final"}

\* the collection ids of the requests; c4 is the id of no collection
Collections == {"c1", "c2", "c3", "c4"}

\* word_collections: c1 and c3 belong to u1, c2 to u2
CollectionOwner(c) ==
    IF c = "c2" THEN "u2" ELSE IF c \in {"c1", "c3"} THEN "u1" ELSE "none"

\* the collection looked up by its id alone
CollectionFound_any_owner(user_id, collection_id) ==
    CollectionOwner(collection_id) # "none"

\* select(WordCollection).where(id == collection_id, user_id == user_id).first()
CollectionFound(user_id, collection_id) == CollectionOwner(collection_id) = user_id

\* n copies of a row
Rows(n, row) == [i \in 1..n |-> row]

\* user_word_items: collection c1 of u1 with n0, n1, n2, n3 items in the statuses 0..3
\* and one mastered item, then items of every status in c3 (u1) and in c2 (u2)
StudyTable(n0, n1, n2, n3) ==
    Rows(n0, CollectionRow("u1", "c1", 0)) \o Rows(n1, CollectionRow("u1", "c1", 1))
    \o Rows(n2, CollectionRow("u1", "c1", 2)) \o Rows(n3, CollectionRow("u1", "c1", 3))
    \o <<CollectionRow("u1", "c1", 4),
         CollectionRow("u1", "c3", 0), CollectionRow("u1", "c3", 1),
         CollectionRow("u1", "c3", 2), CollectionRow("u1", "c3", 3),
         CollectionRow("u2", "c2", 0), CollectionRow("u2", "c2", 1),
         CollectionRow("u2", "c2", 2), CollectionRow("u2", "c2", 3)>>

\* the query without its collection condition
StatusItems_any_collection(table, user_id, collection_id, status) ==
    {i \in DOMAIN table :
        /\ table[i].user_id = user_id
        /\ table[i].status = status}

\* select(UserWordItem, WordBook).where(collection_id, user_id, status)
StatusItems(table, user_id, collection_id, status) ==
    {i \in DOMAIN table :
        /\ table[i].collection_id = collection_id
        /\ table[i].user_id = user_id
        /\ table[i].status = status}

\* the ids of a set in ascending order
SortedSeq(S) ==
    [k \in 1..Cardinality(S) |->
        CHOOSE x \in S : Cardinality({y \in S : y < x}) = k - 1]

\* a set listed in one order: ascending, rotated by order[1], backwards when order[2]
Ordered(S, order) ==
    LET n == Cardinality(S)
        sorted == SortedSeq(S)
        at == Arrangement(1, n, order[1], order[2])
    IN  [k \in 1..n |-> sorted[at[k]]]

\* the orders random.sample returns a sample in
SampleOrders == {<<0, FALSE>>, <<1, FALSE>>, <<0, TRUE>>}

\* the orders a query without ORDER BY returns its rows in
QueryOrders == {<<0, FALSE>>, <<0, TRUE>>}

\* random.sample(results, min(cap, len(results)))
Samples(pool, cap) ==
    {Ordered(S, o) : S \in {T \in SUBSET pool :
                                Cardinality(T) = Min(cap, Cardinality(pool))},
                     o \in SampleOrders}

\* session.exec(statement).all()
QueryResults(pool) == {Ordered(pool, o) : o \in QueryOrders}

\* the queue entries of a list of items: item_id and is_recheck
Entries(ids, is_recheck) ==
    [k \in 1..Len(ids) |-> [item_id |-> ids[k], is_recheck |-> is_recheck]]

\* the first case taken for fewer than two new words only
FewNew_below_two(n) == n < 2

\* if len(new_words_sample) < 3
FewNew(n) == n < 3

\* the remaining new words taken from the third on
RestAfterThird_from_third(new_words_sample) ==
    SubSeq(new_words_sample, 3, Len(new_words_sample))

\* new_words_sample[3:]
RestAfterThird(new_words_sample) == SubSeq(new_words_sample, 4, Len(new_words_sample))

\* pending words inserted after every third new word only
InsertAfter_third_only(i, n) == i % 3 = 0

\* (i + 1) % 3 == 0 or i == len(new_words_sample) - 1, for the i-th new word counted
\* from 1
InsertAfter(i, n) == i % 3 = 0 \/ i = n

\* case 2.1: the loop that inserts every pending word after the third new word (or the
\* last) and, after the third, appends the remaining new words and breaks
RECURSIVE InsertOnce(_, _, _, _)
InsertOnce(new_words_sample, pending_check_results, i, final_queue) ==
    IF i > Len(new_words_sample) THEN final_queue
    ELSE LET q1 == Append(final_queue,
                          [item_id |-> new_words_sample[i], is_recheck |-> FALSE])
             q2 == q1 \o Entries(pending_check_results, TRUE)
         IN  IF i = 3 \/ i = Len(new_words_sample)
             THEN IF i = 3
                  THEN q2 \o Entries(RestAfterThird(new_words_sample), FALSE)
                  ELSE InsertOnce(new_words_sample, pending_check_results, i + 1, q2)
             ELSE InsertOnce(new_words_sample, pending_check_results, i + 1, q1)

\* case 2.2: the loop that inserts min(3, pending words left) pending words after
\* every third new word and after the last one
RECURSIVE Interleave(_, _, _, _, _)
Interleave(new_words_sample, pending_check_results, i, pending_check_index, final_queue) ==
    IF i > Len(new_words_sample) THEN final_queue
    ELSE LET q1 == Append(final_queue,
                          [item_id |-> new_words_sample[i], is_recheck |-> FALSE])
             words_to_insert ==
                 Min(3, Len(pending_check_results) - pending_check_index)
         IN  IF InsertAfter(i, Len(new_words_sample))
             THEN Interleave(new_words_sample, pending_check_results, i + 1,
                             pending_check_index + words_to_insert,
                             q1 \o Entries(SubSeq(pending_check_results,
                                                  pending_check_index + 1,
                                                  pending_check_index + words_to_insert),
                                           TRUE))
             ELSE Interleave(new_words_sample, pending_check_results, i + 1,
                             pending_check_index, q1)

\* the queue of mode new
NewQueue(new_words_sample, pending_check_results) ==
    IF FewNew(Len(new_words_sample))
    THEN Entries(new_words_sample, FALSE) \o Entries(pending_check_results, TRUE)
    ELSE IF 0 < Len(pending_check_results) /\ Len(pending_check_results) < 3
    THEN InsertOnce(new_words_sample, pending_check_results, 1, <<>>)
    ELSE Interleave(new_words_sample, pending_check_results, 1, 0, <<>>)

\* status and cap of the modes review, random and final
ModeStatus(mode) == IF mode = "review" THEN 2 ELSE 3

ModeCap(mode) ==
    IF mode = "review" THEN ReviewCap
    ELSE IF mode = "random" THEN RandomCap
    ELSE FinalCap

SessionOf(user_id, collection_id, mode, new_words_sample, pending_check_results, words, found) ==
    [op |-> "session", user_id |-> user_id, collection_id |-> collection_id,
     mode |-> mode, new_words_sample |-> new_words_sample,
     pending_check_results |-> pending_check_results, words |-> words,
     found |-> found]

\* get_study_session as a function of the table: the call with its words
PStudySession(user_id, collection_id, mode) ==
    /\ plast = NoCall
    /\ IF ~CollectionFound(user_id, collection_id)
       THEN plast' = SessionOf(user_id, collection_id, mode, <<>>, <<>>, <<>>, FALSE)
       ELSE IF mode = "new"
       THEN \E new_words_sample \in
                   Samples(StatusItems(items, user_id, collection_id, 0), NewCap),
               pending_check_results \in
                   QueryResults(StatusItems(items, user_id, collection_id, 1)) :
               plast' = SessionOf(user_id, collection_id, mode, new_words_sample,
                                  pending_check_results,
                                  NewQueue(new_words_sample, pending_check_results),
                                  TRUE)
       ELSE \E results \in Samples(StatusItems(items, user_id, collection_id,
                                                ModeStatus(mode)), ModeCap(mode)) :
               plast' = SessionOf(user_id, collection_id, mode, <<>>, <<>>,
                                  Entries(results, FALSE), TRUE)
    /\ UNCHANGED <<probe, items, exams, spelling, translation, gen, sub, messages,
                   requests>>

StudyInit ==
    /\ items \in {StudyTable(n0, n1, n2, n3) :
                     n0 \in 0..MaxNew, n1 \in 0..MaxPending,
                     n2 \in 0..MaxReviewed, n3 \in 0..MaxReviewed}
    /\ probe = NewItem
    /\ plast = NoCall
    /\ exams = [e \in ExamIds |-> NoExam]
    /\ spelling = [e \in ExamIds |-> {}]
    /\ translation = [e \in ExamIds |-> <<>>]
    /\ gen = [e \in ExamIds |-> NoGen]
    /\ sub = [t \in SubIds |-> NoSub]
    /\ messages = {}
    /\ requests = 0

StudyNext ==
    \E user_id \in Users, collection_id \in Collections, mode \in StudyModes :
        PStudySession(user_id, collection_id, mode)

StudySpec == StudyInit /\ [][StudyNext]_vars

------------------------------------------------------------------------------
(* LifeSpec: the history of one item from its creation, under every study and exam
   operation of both services *)

\* the services that hold the study transition
StudyServices == {"progress", "study"}

\* one study submission through svc: a skip, or an answer that is right or wrong
LStudy(svc, is_skip, is_correct) ==
    /\ requests < MaxOps
    /\ requests' = requests + 1
    /\ probe' = IF svc = "study" THEN submit_study(probe, is_skip, is_correct)
                ELSE IF is_skip THEN reset_to_new(probe, TRUE)
                ELSE update_study_progress(probe, is_correct)
    /\ plast' = [op |-> IF is_skip THEN "skip"
                        ELSE IF is_correct THEN "correct" ELSE "incorrect",
                  svc |-> svc, mode |-> "none", before |-> probe]
    /\ UNCHANGED <<items, exams, spelling, translation, gen, sub, messages>>

\* the item fails in a submitted exam: reset_to_new(item, session)
LExamFailure ==
    /\ requests < MaxOps
    /\ requests' = requests + 1
    /\ probe' = reset_to_new(probe, FALSE)
    /\ plast' = [op |-> "reset", svc |-> "progress", mode |-> "none", before |-> probe]
    /\ UNCHANGED <<items, exams, spelling, translation, gen, sub, messages>>

\* the item passes in a submitted exam of mode m
LExamSuccess(m) ==
    /\ requests < MaxOps
    /\ requests' = requests + 1
    /\ probe' = update_exam_success(probe, m)
    /\ plast' = [op |-> "exam_success", svc |-> "progress", mode |-> m,
                  before |-> probe]
    /\ UNCHANGED <<items, exams, spelling, translation, gen, sub, messages>>

\* status = Field(default=0), the counters default=0, last_review_time default=None
LifeInit ==
    /\ probe = NewItem
    /\ plast = NoCall
    /\ items = [i \in Items |-> NewItem]
    /\ exams = [e \in ExamIds |-> NoExam]
    /\ spelling = [e \in ExamIds |-> {}]
    /\ translation = [e \in ExamIds |-> <<>>]
    /\ gen = [e \in ExamIds |-> NoGen]
    /\ sub = [t \in SubIds |-> NoSub]
    /\ messages = {}
    /\ requests = 0

LifeNext ==
    \/ \E svc \in StudyServices, is_skip \in BOOLEAN, is_correct \in BOOLEAN :
          (is_skip => ~is_correct) /\ LStudy(svc, is_skip, is_correct)
    \/ LExamFailure
    \/ \E m \in Modes : LExamSuccess(m)

LifeSpec == LifeInit /\ [][LifeNext]_vars

ProgressInit ==
    /\ probe \in ProbeItems
    /\ plast = NoCall
    /\ items = [i \in Items |-> NewItem]
    /\ exams = [e \in ExamIds |-> NoExam]
    /\ spelling = [e \in ExamIds |-> {}]
    /\ translation = [e \in ExamIds |-> <<>>]
    /\ gen = [e \in ExamIds |-> NoGen]
    /\ sub = [t \in SubIds |-> NoSub]
    /\ messages = {}
    /\ requests = 0

ProgressNext ==
    \/ PStudyCorrectProgress
    \/ PStudyCorrectStudy
    \/ PStudyIncorrectProgress
    \/ PStudyIncorrectStudy
    \/ PSkipStudy
    \/ PResetToNew
    \/ PExamSuccess

ProgressSpec == ProgressInit /\ [][ProgressNext]_vars

-----------------------------------------------------------------------------
(* Properties of the progress functions (ProgressSpec) *)

\* C1: a correct study answer maps (status, match_count) (0,0) -> (1,1), (1,1) -> (2,0),
\* status 2 -> 3, status 3 -> 4 and leaves both unchanged in every other case;
\* review_count grows by exactly 1; in ProgressService and in StudyService alike.
CorrectAnswerTransition ==
    plast.op = "correct" =>
        LET b == plast.before
        IN  /\ <<probe.status, probe.match_count>> =
                  IF b.status = 0 /\ b.match_count = 0 THEN <<1, 1>>
                  ELSE IF b.status = 1 /\ b.match_count = 1 THEN <<2, 0>>
                  ELSE IF b.status = 2 THEN <<3, b.match_count>>
                  ELSE IF b.status = 3 THEN <<4, b.match_count>>
                  ELSE <<b.status, b.match_count>>
            /\ probe.review_count = b.review_count + 1

CorrectAnswerWitness ==
    /\ plast.op = "correct"
    /\ plast.svc = "progress"
    /\ plast.before.status = 1
    /\ plast.before.match_count = 1
    /\ probe.status = 2
    /\ probe.match_count = 0

\* C2: reset_to_new, an incorrect study answer and a skip each leave status 0 and
\* match_count 0, raise fail_count by exactly 1 and leave review_count unchanged,
\* whatever the prior status.
ResetYieldsNew ==
    plast.op \in {"incorrect", "skip", "reset", "reset_skip"} =>
        /\ probe.status = 0
        /\ probe.match_count = 0
        /\ probe.fail_count = plast.before.fail_count + 1
        /\ probe.review_count = plast.before.review_count

ResetWitness ==
    /\ plast.op = "incorrect"
    /\ plast.svc = "progress"
    /\ plast.before.status = 4
    /\ plast.before.match_count = 2
    /\ probe.status = 0
    /\ probe.match_count = 0

\* C4: update_exam_success raises review_count by 1, moves status 2 -> 3 in immediate
\* and random mode and 3 -> 4 in complete mode, leaves the status unchanged for every
\* other (mode, status), never lowers it and never changes match_count or fail_count.
ExamSuccessTransition ==
    plast.op = "exam_success" =>
        LET b == plast.before
        IN  /\ probe.review_count = b.review_count + 1
            /\ probe.status =
                  IF plast.mode \in {"immediate", "random"} /\ b.status = 2 THEN 3
                  ELSE IF plast.mode = "complete" /\ b.status = 3 THEN 4
                  ELSE b.status
            /\ probe.status >= b.status
            /\ probe.match_count = b.match_count
            /\ probe.fail_count = b.fail_count

ExamSuccessWitness ==
    /\ plast.op = "exam_success"
    /\ plast.mode = "complete"
    /\ plast.before.status = 3
    /\ probe.status = 4

-----------------------------------------------------------------------------
(* Properties of the system (Spec) *)

Ended(pc) == pc \in {"done", "raised"}

\* C3: after any sequence of study submissions and exam submissions every learning
\* item's status is one of 0, 1, 2, 3, 4.
StatusInRange == \A i \in Items : items[i].status \in {0, 1, 2, 3, 4}

StatusInRangeWitness ==
    \E t \in SubIds, i, j \in Items :
        /\ sub[t].completed
        /\ i \in sub[t].failed
        /\ items[i].status = 0
        /\ items[i].fail_count > 0
        /\ j \in sub[t].passed
        /\ items[j].status = 4

\* C5: an exam's exam_status only moves pending -> generated -> grading -> completed,
\* or to failed from pending or generated, whatever the generation task,
\* mark-as-grading and the submission task do and in whatever order.
ForwardMoves ==
    {<<"pending", "generated">>, <<"generated", "grading">>, <<"grading", "completed">>,
     <<"pending", "failed">>, <<"generated", "failed">>}

ExamStatusMovesForward ==
    [][\A e \in ExamIds :
          (Exists(e) /\ exams'[e].exam_status # exams[e].exam_status)
              => <<exams[e].exam_status, exams'[e].exam_status>> \in ForwardMoves]_vars

\* C6: when a submission completes, every failed item of the submitting user has
\* status 0, match_count 0 and fail_count one higher than before, whatever its prior
\* status; every passed item of that user has had update_exam_success(item, exam.mode)
\* applied once; the items of another user are unchanged.
SubmissionUpdatesItems ==
    [][\A t \in SubIds :
          (~sub[t].completed /\ sub'[t].completed) =>
              \A i \in Items :
                  IF ItemOwner(i) # sub[t].user_id
                  THEN items'[i] = items[i]
                  ELSE IF i \in sub'[t].failed
                  THEN /\ items'[i].status = 0
                       /\ items'[i].match_count = 0
                       /\ items'[i].fail_count = items[i].fail_count + 1
                  ELSE IF i \in sub'[t].passed
                  THEN items'[i] = update_exam_success(items[i], exams[sub[t].exam_id].mode)
                  ELSE items'[i] = items[i]]_vars

SubmissionUpdatesWitness ==
    \E t \in SubIds, i, j, k \in Items :
        /\ sub[t].completed
        /\ i \in sub[t].failed /\ ItemOwner(i) = sub[t].user_id
        /\ sub[t].before[i] = 3
        /\ items[i].status = 0
        /\ j \in sub[t].passed /\ ItemOwner(j) = sub[t].user_id
        /\ sub[t].before[j] = 3
        /\ items[j].status = 4
        /\ k \in sub[t].failed /\ ItemOwner(k) # sub[t].user_id

\* C7: on submission the failed set is the submitted wrong ids united with the
\* involved ids of every translation judged incorrect; the passed set is the exam's
\* spelling-entry item ids minus the failed set; the two are disjoint, every item of
\* the exam is in exactly one of them, and the exam becomes completed.
SubmissionPartitionsExam ==
    [][\A t \in SubIds :
          (~sub[t].completed /\ sub'[t].completed) =>
              LET e == sub[t].exam_id
                  failed == sub'[t].failed
                  passed == sub'[t].passed
                  judged == sub'[t].results
              IN  /\ Len(judged) = Len(sub[t].sents)
                  /\ failed = sub[t].wrong \cup
                        UNION {sub[t].sents[k] : k \in {n \in 1..Len(judged) :
                                                          ~judged[n].is_correct}}
                  /\ passed = spelling[e] \ failed
                  /\ passed \cap failed = {}
                  /\ \A i \in spelling[e] : (i \in passed) # (i \in failed)
                  /\ exams'[e].exam_status = "completed"]_vars

SubmissionPartitionWitness ==
    \E t \in SubIds, k \in 1..MaxSent :
        /\ sub[t].completed
        /\ sub[t].wrong # {}
        /\ k <= Len(sub[t].results)
        /\ ~sub[t].results[k].is_correct
        /\ sub[t].sents[k] \cap sub[t].wrong = {}
        /\ sub[t].sents[k] \subseteq spelling[sub[t].exam_id]
        /\ sub[t].passed # {}
        /\ Cardinality(sub[t].failed) = Cardinality(sub[t].wrong) + 1
        /\ exams[sub[t].exam_id].exam_status = "completed"

\* C8: the generation task moves every pending exam to generated or failed; on any
\* error it records failed and notifies, no exception leaves the task, and no exam
\* is pending once its task has ended.
GenerationTaskSettlesExam ==
    \A e \in ExamIds :
        /\ gen[e].pc # "raised"
        /\ Ended(gen[e].pc) => exams[e].exam_status # "pending"

\* C9: a submission that marked an exam grading brings it to completed with
\* completed_at set, whatever the LLM returns and however it fails: every submission
\* task that has ended has completed its exam.
SubmissionTaskCompletesExam ==
    \A t \in SubIds : Ended(sub[t].pc) => sub[t].completed

\* C10: when the grading call fails for a sentence, the sentence is judged incorrect
\* with the service-unavailable feedback, its involved ids are in the failed set, and
\* the task goes on: to the next sentence, or after the last one to completing the exam.
GradingFailureDegrades ==
    \A t \in SubIds : \A k \in 1..Len(sub[t].replies) :
        sub[t].replies[k] = "llm_error" =>
            /\ Len(sub[t].results) >= k
            /\ ~sub[t].results[k].is_correct
            /\ sub[t].results[k].feedback = "unavailable"
            /\ sub[t].sents[k] \subseteq sub[t].failed
            /\ k < Len(sub[t].sents) => sub[t].idx > k
            /\ k = Len(sub[t].sents) =>
                  sub[t].completed /\ exams[sub[t].exam_id].completed_at = "set"

GradingFailureWitness ==
    \E t \in SubIds :
        /\ sub[t].completed
        /\ Len(sub[t].sents) = 2
        /\ sub[t].replies = <<"llm_error", "correct">>
        /\ sub[t].sents[1] \subseteq sub[t].failed
        /\ exams[sub[t].exam_id].exam_status = "completed"

\* C11: a submission for an exam that does not belong to the caller is rejected: it
\* schedules no submission task and changes neither the exam's status nor any item;
\* only the owner of an exam moves it to grading or to completed.
ForeignSubmissionRejected ==
    [][\A t \in SubIds :
          /\ (sub[t].pc = "none" /\ sub'[t].pc # "none")
                => exams[sub'[t].exam_id].user_id = sub'[t].user_id
          /\ (~sub[t].completed /\ sub'[t].completed)
                => exams[sub[t].exam_id].user_id = sub[t].user_id]_vars

NonTerminal == {"pending", "generated", "grading"}

\* C12: when a random-mode or complete-mode exam is generated without an explicit item
\* list, none of the items it selects is bound by a spelling entry to another
\* non-terminal exam of the same user and the same mode.
SelectionAvoidsSameMode ==
    [][\A e \in ExamIds :
          (gen[e].pc = "queued" /\ gen'[e].pc = "llm"
              /\ gen[e].mode \in {"random", "complete"}) =>
              \A f \in ExamIds \ {e} :
                  (/\ exams[f].user_id = exams[e].user_id
                   /\ exams[f].mode = exams[e].mode
                   /\ exams[f].exam_status \in NonTerminal)
                      => gen'[e].selected \cap spelling[f] = {}]_vars

\* C13: the items an immediate-mode generation task selects contain no word that is
\* bound, when its selection query runs, to another exam of the same user in generated
\* or grading status, whatever that exam's mode.
ImmediateSelectionAvoidsBound ==
    [][\A e \in ExamIds :
          (gen[e].pc = "queued" /\ gen'[e].pc = "llm" /\ gen[e].mode = "immediate") =>
              \A f \in ExamIds \ {e} :
                  (/\ exams[f].user_id = exams[e].user_id
                   /\ exams[f].exam_status \in {"generated", "grading"})
                      => {ItemWord(i) : i \in gen'[e].selected}
                            \cap {ItemWord(i) : i \in spelling[f]} = {}]_vars

ImmediateSelectionWitness ==
    \E e, f \in ExamIds :
        /\ e # f
        /\ gen[e].pc = "llm"
        /\ gen[e].mode = "immediate"
        /\ gen[e].selected # {}
        /\ exams[f].user_id = exams[e].user_id
        /\ exams[f].mode = "random"
        /\ exams[f].exam_status = "generated"
        /\ Cardinality(spelling[f]) = 2
        /\ gen[e].selected \cap spelling[f] = {}

\* C14: no learning item is double-assigned: under any interleaving of the generation
\* tasks of a user, no word is in the spelling entries of two non-terminal exams of
\* that user at the same time.
NoDoubleAssignment ==
    \A e, f \in ExamIds :
        (/\ e # f
         /\ exams[e].user_id = exams[f].user_id
         /\ exams[e].exam_status \in NonTerminal
         /\ exams[f].exam_status \in NonTerminal)
            => {ItemWord(i) : i \in spelling[e]} \cap {ItemWord(i) : i \in spelling[f]} = {}

\* C15: at every moment a user has at most one non-terminal (pending, generated or
\* grading) complete-mode exam, whether the exams come from generate requests or from
\* complete-review partitioning.
OneActiveCompleteExam ==
    \A u \in Users :
        Cardinality({e \in ExamIds : /\ exams[e].user_id = u
                                     /\ exams[e].mode = "complete"
                                     /\ exams[e].exam_status \in NonTerminal}) <= 1

\* C16: for complete mode the availability is 0 whenever the user has a complete-mode
\* exam in pending, generated or grading status, however many status-3 items exist.
CompleteLockForcesZero ==
    \A u \in Users :
        (\E e \in ExamIds : /\ exams[e].user_id = u
                            /\ exams[e].mode = "complete"
                            /\ exams[e].exam_status \in NonTerminal)
            => check_review_availability(u, "complete") = 0

CompleteLockWitness ==
    \E u \in Users, e \in ExamIds :
        /\ exams[e].user_id = u
        /\ exams[e].mode = "complete"
        /\ exams[e].exam_status = "grading"
        /\ \A i \in Items : ItemOwner(i) = u => items[i].status >= 3
        /\ Cardinality({i \in Items : /\ ItemOwner(i) = u
                                      /\ items[i].status = 3
                                      /\ i \notin spelling[e]}) >= 1
        /\ check_review_availability(u, "complete") = 0

\* C17: for complete mode the availability is 0 whenever an item of the user's
\* collection has a status below 3, however many items are at status 3; it is positive
\* only when every item of the collection has status 3 or 4.
CompleteNeedsWholeCollection ==
    \A u \in Users :
        LET available_count == check_review_availability(u, "complete")
        IN  /\ (\E i \in Items : ItemOwner(i) = u /\ items[i].status < 3)
                  => available_count = 0
            /\ available_count > 0
                  => \A i \in Items : ItemOwner(i) = u => items[i].status \in {3, 4}

CompleteNeedsWholeCollectionWitness ==
    \E u \in Users :
        /\ Cardinality({i \in Items : ItemOwner(i) = u /\ items[i].status = 3})
              >= MinAvailable
        /\ \E i \in Items : ItemOwner(i) = u /\ items[i].status = 2
        /\ \A e \in ExamIds : exams[e].mode # "complete"
        /\ \E e \in ExamIds : exams[e].user_id = u /\ exams[e].exam_status = "generated"
        /\ check_review_availability(u, "complete") = 0

\* C18: the availability of (user, mode) is the number of the user's items that satisfy
\* the mode predicate and are not claimed by an exam of the user, of any mode, that is
\* generated or grading (for complete mode also pending); the two gates of complete
\* mode (C16, C17) aside.
AvailabilityCountsUnclaimed ==
    \A u \in Users, mode \in RequestModes :
        LET claiming ==
                {e \in ExamIds : /\ exams[e].user_id = u
                                 /\ \/ exams[e].exam_status \in {"generated", "grading"}
                                    \/ mode = "complete" /\ exams[e].exam_status = "pending"}
            claimed == {ItemWord(i) : i \in UNION {spelling[e] : e \in claiming}}
            unclaimed == {i \in Items : /\ ItemOwner(i) = u
                                        /\ ModePredicate(mode, items[i].status)
                                        /\ ItemWord(i) \notin claimed}
            gated == /\ mode = "complete"
                     /\ \/ \E e \in ExamIds : /\ exams[e].user_id = u
                                              /\ exams[e].mode = "complete"
                                              /\ exams[e].exam_status \in NonTerminal
                        \/ \E i \in Items : ItemOwner(i) = u /\ items[i].status < 3
        IN  ~gated => check_review_availability(u, mode) = Cardinality(unclaimed)

\* C19: the generate request creates an Exam row, pending and with its task scheduled,
\* only when the availability count reaches the threshold; below it the request is
\* rejected and neither a row nor a task appears.
ThresholdGuardsCreation ==
    [][\A e \in ExamIds :
          (~Exists(e) /\ exams'[e].exam_status # "absent" /\ gen'[e].pc = "queued") =>
              /\ check_review_availability(exams'[e].user_id, exams'[e].mode)
                    >= MinAvailable
              /\ exams'[e].exam_status = "pending"]_vars

ThresholdWitness ==
    /\ requests = 2
    /\ exams[1].exam_status = "pending"
    /\ gen[1].pc = "queued"
    /\ \A e \in ExamIds \ {1} : ~Exists(e) /\ gen[e].pc = "none"
    /\ \A t \in SubIds : sub[t].pc = "none"
    /\ \E mode \in RequestModes :
          check_review_availability(exams[1].user_id, mode) = MinAvailable - 1

\* how recent a last_review_time is: never reviewed, before the behaviour, during it
Recency(t) == IF t = "null" THEN 0 ELSE IF t = "old" THEN 1 ELSE 2

CountsMatchEntries ==
    \A e \in ExamIds :
        exams[e].exam_status \in {"generated", "grading", "completed"} =>
            /\ exams[e].spelling_words_count = Cardinality(spelling[e])
            /\ exams[e].translation_sentences_count = Len(translation[e])

------------------------------------------------------------------------------
(* Properties of the complete-review partitioning (PartitionSpec) *)

\* C23: the partitions of a complete review are pairwise disjoint, their union is
\* exactly the status-3 items of the user's collection, their sizes differ by at most
\* one, and each created exam is pending, of mode complete, with total_words equal to
\* the size of its partition.
PartitionIsBalanced ==
    plast.op = "prepare" =>
        LET res == plast.result
            idx == 1..Len(res)
        IN  /\ \A a, b \in idx : a # b => res[a].item_ids \cap res[b].item_ids = {}
            /\ UNION {res[a].item_ids : a \in idx} =
                  {i \in DOMAIN items :
                      /\ items[i].status = 3
                      /\ items[i].user_id = plast.user_id
                      /\ items[i].collection_id = plast.collection_id}
            /\ \A a, b \in idx :
                  Cardinality(res[a].item_ids) - Cardinality(res[b].item_ids) <= 1
            /\ \A a \in idx :
                  /\ res[a].exam.exam_status = "pending"
                  /\ res[a].exam.mode = "complete"
                  /\ res[a].exam.user_id = plast.user_id
                  /\ res[a].exam.total_words = Cardinality(res[a].item_ids)

PartitionBalancedWitness ==
    /\ plast.op = "prepare"
    /\ Len(plast.result) = 5
    /\ \E a, b \in 1..Len(plast.result) :
          Cardinality(plast.result[a].item_ids) =
              Cardinality(plast.result[b].item_ids) + 1

\* C24: a pool of N status-3 items yields 1 exam for 1 <= N < 50, 2 for 50 <= N < 150,
\* 5 for 150 <= N < 300 and 10 from 300 on (no partition is empty), and none for N = 0.
ExamsPerPoolSize ==
    plast.op = "prepare" =>
        LET N == Cardinality({i \in DOMAIN items :
                      /\ items[i].status = 3
                      /\ items[i].user_id = plast.user_id
                      /\ items[i].collection_id = plast.collection_id})
            created == Len(plast.result)
        IN  /\ N = 0 => created = 0
            /\ (1 <= N /\ N < 50) => created = 1
            /\ (50 <= N /\ N < 150) => created = 2
            /\ (150 <= N /\ N < 300) => created = 5
            /\ 300 <= N => created = 10
            /\ \A a \in 1..created : plast.result[a].item_ids # {}

ExamsPerPoolSizeWitness ==
    /\ plast.op = "prepare"
    /\ Len(plast.result) = 10
    /\ Cardinality(UNION {plast.result[a].item_ids : a \in 1..10}) = 300

------------------------------------------------------------------------------
(* Properties of exam deletion (DeleteSpec) *)

\* C25: a delete request succeeds only when the caller owns the exam and the exam is
\* completed or failed, and then removes the exam with all of its spelling and
\* translation entries; for another user's exam, or one that is pending, generated or
\* grading, it is rejected and the exam and its entries stay as they were.
DeleteOnlyOwnEndedExam ==
    [][\A u \in Users, e \in ExamIds :
          (/\ requests' = requests + 1
           /\ plast'.op = "delete_exam"
           /\ plast'.request = requests'
           /\ plast'.user_id = u
           /\ plast'.exam_id = e) =>
              /\ plast'.outcome = "deleted" =>
                    /\ exams[e].user_id = u
                    /\ exams[e].exam_status \in {"completed", "failed"}
                    /\ exams'[e].exam_status = "absent"
                    /\ spelling'[e] = {}
                    /\ translation'[e] = <<>>
              /\ (Exists(e) /\ (exams[e].user_id # u
                                \/ exams[e].exam_status \in
                                      {"pending", "generated", "grading"})) =>
                    /\ plast'.outcome \in {"not_owner", "not_deletable"}
                    /\ exams' = exams
                    /\ spelling' = spelling
                    /\ translation' = translation]_vars

DeleteRemovesEntriesWitness ==
    /\ plast.op = "delete_exam"
    /\ plast.outcome = "deleted"
    /\ plast.request = requests
    /\ ~Exists(plast.exam_id)
    /\ gen[plast.exam_id].pc = "done"
    /\ gen[plast.exam_id].selected # {}
    /\ spelling[plast.exam_id] = {}
    /\ translation[plast.exam_id] = <<>>

------------------------------------------------------------------------------
(* Properties of the study queues (StudySpec) *)

\* the item ids of a queue, in queue order
QueueIds(words) == [k \in 1..Len(words) |-> words[k].item_id]

\* the items of a list
Range(seq) == {seq[k] : k \in 1..Len(seq)}

\* C26: in mode new no item id occurs twice in the queue and the ids emitted are the
\* sample of new items together with the whole pool of status-1 items.
NewQueueEmitsBothPools ==
    (plast.op = "session" /\ plast.mode = "new" /\ plast.found) =>
        /\ \A a, b \in 1..Len(plast.words) :
              a # b => plast.words[a].item_id # plast.words[b].item_id
        /\ Range(QueueIds(plast.words)) =
              Range(plast.new_words_sample)
              \cup StatusItems(items, plast.user_id, plast.collection_id, 1)

\* the queue entries that came from the sample of new items
IsNewEntry(w) == ~w.is_recheck

\* the queue entries that came from the pool of status-1 items
IsRecheckEntry(w) == w.is_recheck

\* the position of the i-th new entry in a queue
NewPosition(words, i) ==
    CHOOSE p \in 1..Len(words) :
        /\ ~words[p].is_recheck
        /\ Cardinality({q \in 1..p : ~words[q].is_recheck}) = i

\* C27: in mode new with |A| >= 3 and |B| = 0 or |B| >= 3, A appears in sample order,
\* B-items appear only in blocks right after every 3rd A-item and after the final
\* A-item, each block being the next min(3, remaining) items of B in pool order (one
\* block where the 3rd and the final A-item coincide).
InterleavedInBlocksOfThree ==
    LET A == plast.new_words_sample
        B == plast.pending_check_results
        words == plast.words
    IN  (/\ plast.op = "session" /\ plast.mode = "new" /\ plast.found
         /\ Len(A) >= 3
         /\ (Len(B) = 0 \/ Len(B) >= 3)) =>
            /\ QueueIds(SelectSeq(words, IsNewEntry)) = A
            /\ LET emitted == QueueIds(SelectSeq(words, IsRecheckEntry))
               IN  emitted = SubSeq(B, 1, Len(emitted))
            /\ \A i \in 1..Len(A) :
                  LET p == NewPosition(words, i)
                      next == IF i = Len(A) THEN Len(words) + 1
                              ELSE NewPosition(words, i + 1)
                      before == p - i
                  IN  next - p - 1 =
                         IF i % 3 = 0 \/ i = Len(A)
                         THEN Min(3, Len(B) - before)
                         ELSE 0
            /\ ~words[1].is_recheck

InterleavedBlocksWitness ==
    /\ plast.op = "session"
    /\ plast.mode = "new"
    /\ Len(plast.new_words_sample) = 4
    /\ Len(plast.pending_check_results) = 5
    /\ Len(plast.words) = 9
    /\ plast.words[4].is_recheck
    /\ ~plast.words[7].is_recheck
    /\ plast.words[9].is_recheck

\* C28: in mode new with |A| >= 3 and 0 < |B| < 3, all of B is one contiguous block
\* right after the 3rd A-item, the remaining A-items follow, no item is emitted twice
\* and the queue has |A| + |B| entries.
FewPendingAfterThirdNew ==
    LET A == plast.new_words_sample
        B == plast.pending_check_results
    IN  (/\ plast.op = "session" /\ plast.mode = "new" /\ plast.found
         /\ Len(A) >= 3
         /\ 0 < Len(B) /\ Len(B) < 3) =>
            /\ plast.words = Entries(SubSeq(A, 1, 3), FALSE) \o Entries(B, TRUE)
                                \o Entries(SubSeq(A, 4, Len(A)), FALSE)
            /\ Len(plast.words) = Len(A) + Len(B)
            /\ Cardinality(Range(QueueIds(plast.words))) = Len(plast.words)

FewPendingWitness ==
    /\ plast.op = "session"
    /\ plast.mode = "new"
    /\ Len(plast.new_words_sample) = 5
    /\ Len(plast.pending_check_results) = 2
    /\ plast.words[4].is_recheck
    /\ plast.words[5].is_recheck
    /\ plast.words[7].item_id = plast.new_words_sample[5]

\* C29: in mode new with |A| < 3 the queue is A in sample order followed by all of B,
\* of length |A| + |B|; with |A| = 0 it is exactly B.
FewNewThenAllPending ==
    LET A == plast.new_words_sample
        B == plast.pending_check_results
    IN  (/\ plast.op = "session" /\ plast.mode = "new" /\ plast.found
         /\ Len(A) < 3) =>
            /\ plast.words = Entries(A, FALSE) \o Entries(B, TRUE)
            /\ Len(plast.words) = Len(A) + Len(B)
            /\ Range(B) = StatusItems(items, plast.user_id, plast.collection_id, 1)
            /\ Len(A) = 0 => QueueIds(plast.words) = B

FewNewWitness ==
    /\ plast.op = "session"
    /\ plast.mode = "new"
    /\ Len(plast.new_words_sample) = 2
    /\ Len(plast.pending_check_results) = 5
    /\ Len(plast.words) = 7

\* C30: every queue is well formed: its items belong to the caller and to the requested
\* collection; review has at most ReviewCap items, all status 2; random at most
\* RandomCap and final at most FinalCap, all status 3; new has at most NewCap status-0
\* items plus status-1 items; no item occurs twice; is_recheck is true exactly on the
\* status-1 items.
QueueWellFormed ==
    plast.op = "session" =>
        LET words == plast.words
            idx == 1..Len(words)
            StatusOf(k) == items[words[k].item_id].status
        IN  /\ \A k \in idx :
                  /\ words[k].item_id \in DOMAIN items
                  /\ items[words[k].item_id].user_id = plast.user_id
                  /\ items[words[k].item_id].collection_id = plast.collection_id
                  /\ words[k].is_recheck <=> (StatusOf(k) = 1)
            /\ \A a, b \in idx : a # b => words[a].item_id # words[b].item_id
            /\ plast.mode = "review" =>
                  Len(words) <= ReviewCap /\ \A k \in idx : StatusOf(k) = 2
            /\ plast.mode = "random" =>
                  Len(words) <= RandomCap /\ \A k \in idx : StatusOf(k) = 3
            /\ plast.mode = "final" =>
                  Len(words) <= FinalCap /\ \A k \in idx : StatusOf(k) = 3
            /\ plast.mode = "new" =>
                  /\ \A k \in idx : StatusOf(k) \in {0, 1}
                  /\ Cardinality({k \in idx : StatusOf(k) = 0}) <= NewCap

QueueWellFormedWitness ==
    /\ plast.op = "session"
    /\ plast.mode = "final"
    /\ Len(plast.words) = FinalCap
    /\ Cardinality(StatusItems(items, plast.user_id, plast.collection_id, 3)) > FinalCap
    /\ \E i \in DOMAIN items :
          /\ items[i].user_id = plast.user_id
          /\ items[i].collection_id # plast.collection_id
          /\ items[i].status = 3

\* C31: a study session for a collection that does not exist or is not the caller's is
\* an empty queue with the error indicator, and building a session in any mode, found
\* or not, leaves every learning item unchanged.
SessionReadsOnly ==
    [][(plast.op = "none" /\ plast'.op = "session") =>
          /\ items' = items
          /\ CollectionOwner(plast'.collection_id) # plast'.user_id =>
                (plast'.words = <<>> /\ ~plast'.found)]_vars

SessionNotFoundWitness ==
    /\ plast.op = "session"
    /\ plast.user_id = "u2"
    /\ CollectionOwner(plast.collection_id) = "u1"
    /\ \E i \in DOMAIN items :
          items[i].collection_id = plast.collection_id /\ items[i].status = 0
    /\ plast.mode = "new"
    /\ plast.words = <<>>
    /\ ~plast.found

------------------------------------------------------------------------------
(* Further properties of the progress functions (ProgressSpec) *)

\* C32: every study submission (correct, incorrect or skip) increases study_count by
\* exactly 1, through StudyService.submit_study and through ProgressService
\* (update_study_progress for answers, reset_to_new with is_skip for skips).
StudyCountsOnce ==
    plast.op \in {"correct", "incorrect", "skip", "reset_skip"} =>
        probe.study_count = plast.before.study_count + 1

StudyCountsOnceWitness ==
    /\ plast.op = "incorrect"
    /\ plast.svc = "progress"
    /\ plast.before.status = 2
    /\ plast.before.study_count = 1
    /\ probe.study_count = 2
    /\ probe.fail_count = plast.before.fail_count + 1

------------------------------------------------------------------------------
(* Properties of item histories (LifeSpec) *)

\* C33: review_count, fail_count, match_count and study_count are monotonic counters:
\* over any sequence of study and exam operations none of the four ever decreases and
\* none is ever negative.
CountersNeverDecrease ==
    [][/\ probe'.review_count >= probe.review_count
       /\ probe'.fail_count >= probe.fail_count
       /\ probe'.match_count >= probe.match_count
       /\ probe'.study_count >= probe.study_count
       /\ probe'.review_count >= 0 /\ probe'.fail_count >= 0
       /\ probe'.match_count >= 0 /\ probe'.study_count >= 0]_vars

\* C33 (amended): review_count, fail_count and study_count never decrease, none of the
\* four counters is ever negative, and match_count is 0 or 1 and falls only to 0.
CountersNeverDecreaseButMatch ==
    [][/\ probe'.review_count >= probe.review_count
       /\ probe'.fail_count >= probe.fail_count
       /\ probe'.study_count >= probe.study_count
       /\ probe'.review_count >= 0 /\ probe'.fail_count >= 0
       /\ probe'.match_count >= 0 /\ probe'.study_count >= 0
       /\ probe'.match_count \in {0, 1}
       /\ probe'.match_count < probe.match_count => probe'.match_count = 0]_vars

MatchCountFallsWitness ==
    /\ plast.op = "correct"
    /\ plast.before.match_count = 1
    /\ probe.match_count = 0
    /\ probe.status = 2
    /\ probe.fail_count > 0
    /\ probe.review_count > plast.before.review_count

\* C39: in every state reached from an item created with status 0 and match_count 0,
\* match_count is 1 exactly when status is 1 and 0 otherwise; so a correct study answer
\* on a status-0 or status-1 item always advances it, and a correct answer leaves the
\* status as it was only at status 4.
MatchCountTracksStatus ==
    /\ probe.match_count = (IF probe.status = 1 THEN 1 ELSE 0)
    /\ plast.op = "correct" =>
          /\ plast.before.status \in {0, 1} => probe.status = plast.before.status + 1
          /\ probe.status = plast.before.status => plast.before.status = 4

MatchCountTracksStatusWitness ==
    /\ plast.op = "correct"
    /\ plast.before.status = 4
    /\ probe.status = 4
    /\ probe.match_count = 0
    /\ probe.review_count = plast.before.review_count + 1

\* the item and the message are those of the other service's function on the same input
SameAnswerOutcome(is_correct) ==
    /\ plast.svc = "study" => probe = update_study_progress(plast.before, is_correct)
    /\ plast.svc = "progress" => probe = submit_study(plast.before, FALSE, is_correct)
    /\ submit_study_msg(plast.before, FALSE, is_correct) =
          update_study_progress_msg(plast.before, is_correct)

\* the item after a skip is that of the other service's function on the same input
SameSkipItem ==
    /\ plast.op = "skip" => probe = reset_to_new(plast.before, TRUE)
    /\ plast.op = "reset_skip" => probe = submit_study(plast.before, TRUE, FALSE)

\* C40: StudyService.submit_study and ProgressService (update_study_progress for
\* answers, reset_to_new with is_skip for skips) are equivalent: for every starting item
\* and every outcome they give the same status, match_count, review_count, fail_count
\* and study_count, and the same status label.
StudyPathsEquivalent ==
    /\ plast.op = "correct" => SameAnswerOutcome(TRUE)
    /\ plast.op = "incorrect" => SameAnswerOutcome(FALSE)
    /\ plast.op \in {"skip", "reset_skip"} =>
          /\ SameSkipItem
          /\ submit_study_msg(plast.before, TRUE, FALSE) =
                reset_to_new_msg(plast.before, TRUE)

\* C40 (amended): the two paths give the same item for every starting item and every
\* outcome, and the same status label for correct and incorrect answers; for a skip
\* submit_study returns the label of a skip and reset_to_new returns no label.
StudyPathsEquivalentButSkipLabel ==
    /\ plast.op = "correct" => SameAnswerOutcome(TRUE)
    /\ plast.op = "incorrect" => SameAnswerOutcome(FALSE)
    /\ plast.op \in {"skip", "reset_skip"} =>
          /\ SameSkipItem
          /\ submit_study_msg(plast.before, TRUE, FALSE) = "skipped"
          /\ reset_to_new_msg(plast.before, TRUE) = "None"

StudyPathsWitness ==
    /\ plast.op = "correct"
    /\ plast.svc = "study"
    /\ plast.before.status = 0
    /\ plast.before.match_count = 1
    /\ probe.status = 0
    /\ probe.review_count = plast.before.review_count + 1
    /\ update_study_progress_msg(plast.before, TRUE) = "keep_going"

------------------------------------------------------------------------------
(* Further properties of generation and submission *)

\* C34: a failing notification send is never escalated and never changes the outcome:
\* no generation or submission task ends by an exception (in GenSpec only
\* create_message can raise one), and an exam whose translation entries were committed
\* by a step is generated after that step.
NotificationFailureIsHarmless ==
    [][/\ \A e \in ExamIds :
             /\ (gen[e].pc # "raised" => gen'[e].pc # "raised")
             /\ translation'[e] # translation[e] => exams'[e].exam_status = "generated"
       /\ \A t \in SubIds : sub[t].pc # "raised" => sub'[t].pc # "raised"]_vars

\* C37: once an exam is generated, total_words is the number of items selected for it
\* (its persisted spelling entries), also when the eligible pool was smaller than the
\* requested count.
TotalWordsIsSelectionSize ==
    \A e \in ExamIds :
        exams[e].exam_status = "generated" =>
            exams[e].total_words = Cardinality(spelling[e])

\* C38: a submission changes only learning items of the submitted exam (the item ids of
\* its spelling entries), whatever ids the wrong-spelling list and the translations'
\* involved ids name.
SubmissionTouchesOnlyExamItems ==
    [][\A t \in SubIds :
          (~sub[t].completed /\ sub'[t].completed) =>
              \A i \in Items :
                  items'[i] # items[i] => i \in spelling[sub[t].exam_id]]_vars

\* C35: running the generation task again for an exam that is generated or completed
\* is a no-op: no step of the second run adds a spelling or translation entry or
\* changes the exam's status or count fields.
RerunIsNoOp ==
    [][\A e \in ExamIds :
          (/\ gen[e].runs > 1
           /\ gen[e].pc \in {"queued", "llm"}
           /\ gen'[e] # gen[e]
           /\ exams[e].exam_status \in {"generated", "completed"}) =>
              /\ exams'[e] = exams[e]
              /\ spelling'[e] = spelling[e]
              /\ translation'[e] = translation[e]]_vars

\* C36: the generation and grading tasks each run on a session of their own, distinct
\* from the session of the request that scheduled them (a request that has returned by
\* the time its task is queued).
TasksUseOwnSession ==
    /\ \A e \in ExamIds : gen[e].pc \in {"queued", "llm"} => gen[e].session # "request"
    /\ \A t \in SubIds : sub[t].pc \in {"queued", "llm"} => sub[t].session # "request"

====
